---- MODULE Spec2Model ----
(***************************************************************************)
(* Order fulfilment and inventory consistency of ElectricityShop_Go.       *)
(*                                                                         *)
(* The model follows internal/application/handlers/order_command_handler.go*)
(* one repository call at a time: every action is one repository (or event *)
(* sink) call of a handler together with the local code that follows it up *)
(* to the next call.  Each request runs in its own process p; the          *)
(* repositories (products, orders, payments, carts) are the shared state.  *)
(* Amounts are integers in cents; timestamps are modelled by whether they  *)
(* are set (TRUE) or null (FALSE).                                         *)
(***************************************************************************)
EXTENDS Integers, Sequences, FiniteSets, TLC

(***************************************************************************)
(* Bounds of the model                                                     *)
(***************************************************************************)
MaxStock == 2
MaxQty == 2
MaxLines == 2
MaxCalls == 3
MaxOrders == 2

(***************************************************************************)
(* Program constants                                                       *)
(***************************************************************************)
TaxRatePercent == 8

(***************************************************************************)
(* The world: users, their addresses, the catalog                          *)
(***************************************************************************)
Procs == {1, 2}
Solo == {1}

Users == {"u1", "u2"}
UnknownUser == "u0"
AddressOwner == [a1 |-> "u1", a2 |-> "u2"]
Addresses == DOMAIN AddressOwner
UnknownAddress == "a0"
Products == {"pA", "pB"}
UnknownProduct == "p0"
PriceOf == [pA |-> 1000, pB |-> 1995]

OrderStatuses ==
  {"pending", "confirmed", "processing", "shipped", "delivered", "cancelled", "refunded"}

PaymentStatuses ==
  {"pending", "processing", "completed", "failed", "refunded", "cancelled"}

\* the package level error values the handlers call WithDetails on
PredefinedErrors ==
  {"FORBIDDEN", "INSUFFICIENT_STOCK", "ORDER_CANNOT_BE_CANCELLED", "PAYMENT_FAILED"}

\* AppError.Details of an error declared without details
NoDetails == <<>>

VARIABLES
  products,   \* productID -> [isActive, stock, price]       (products table)
  orders,     \* sequence of Order rows, the row's id is its index
  payments,   \* sequence of Payment rows, the row's id is its index
  events,     \* the events handed to the event sink: <<type, orderID>>, orderID 0
              \* for an event that is not about an order
  carts,      \* userID -> the lines of the user's cart           (cart_items table)
  cache,      \* the keys of the map handed to CachingMiddleware
  predefined, \* error code -> Details of the package level error value
  loc,        \* per request process: position and local variables of the handler
  calls,      \* number of handler calls started so far
  stock0,     \* history: the stock each product started with
  cancels,    \* history: orderID -> number of CancelOrder calls that returned nil
  restored,   \* history: orderID -> number of stock restoring writes made for it
  reserved    \* history: orderID -> number of stock decrementing writes made for it

vars ==
  <<products, orders, payments, events, carts, cache, predefined, loc, calls, stock0,
    cancels, restored, reserved>>

(***************************************************************************)
(* Values                                                                  *)
(***************************************************************************)
NoProduct == [id |-> "none", isActive |-> FALSE, stock |-> 0, price |-> 0]

NoOrder ==
  [id |-> 0, userID |-> "none", status |-> "none", paymentStatus |-> "none",
   shippingStatus |-> "none", items |-> <<>>, subtotal |-> 0, taxAmount |-> 0,
   shippingAmount |-> 0, discountAmount |-> 0, total |-> 0,
   shippedAt |-> FALSE, deliveredAt |-> FALSE, cancelledAt |-> FALSE,
   shipments |-> 0]

NoPayment ==
  [id |-> 0, orderID |-> 0, amount |-> 0, status |-> "none", processedAt |-> FALSE]

NoCmd ==
  [op |-> "none", userID |-> "none", shippingAddressID |-> "none",
   billingAddressID |-> "none", items |-> <<>>, orderID |-> 0,
   status |-> "none", amount |-> 0, paymentID |-> 0, shipmentID |-> 0]

NoLoc ==
  [pc |-> "idle", cmd |-> NoCmd, result |-> "none", caller |-> "none",
   idx |-> 0, orderItems |-> <<>>, product |-> NoProduct, order |-> NoOrder,
   uorder |-> NoOrder, newStatus |-> "none", payment |-> 0,
   paymentRow |-> NoPayment,
   pre |-> [stock |-> [p \in Products |-> 0], orders |-> 0, order |-> NoOrder,
            cart |-> <<>>, payments |-> 0]]

RECURSIVE SumSeq(_)
SumSeq(s) == IF s = <<>> THEN 0 ELSE Head(s) + SumSeq(Tail(s))

\* decimal(10,2) column: a value given in 1/100 cent is stored rounded to the cent
RoundToCents(x) == (x + 50) \div 100

\* Product.CanOrder
CanOrder(product, quantity) ==
  product.isActive /\ product.stock >= quantity /\ quantity > 0

\* Product.CanOrder of the repository's other Product entity
CanOrderPart006(product, quantity) ==
  product.isActive /\ product.stock >= quantity

\* an order that can still be cancelled while it is being processed
CanBeCancelledUntilShipped(o) ==
  o.status = "pending" \/ o.status = "confirmed" \/ o.status = "processing"

\* Order.CanBeCancelled
CanBeCancelled(o) == o.status = "pending" \/ o.status = "confirmed"

\* Order.CanBeShipped
CanBeShipped(o) == o.status = "processing" /\ o.paymentStatus = "completed"

\* ProductRepository.GetByID on an existing row
GetProduct(id) ==
  [id |-> id, isActive |-> products[id].isActive, stock |-> products[id].stock,
   price |-> products[id].price]

\* ProductRepository.UpdateStock: UPDATE products SET stock = quantity WHERE id
UpdateStock(ps, id, quantity) == [ps EXCEPT ![id].stock = quantity]

OrderExists(id) == id \in DOMAIN orders

(***************************************************************************)
(* Init: the state after the server is wired up (routes.go) over a         *)
(* database holding the catalog, no orders and no payments                 *)
(***************************************************************************)
Init ==
  /\ \E st \in [Products -> 0..MaxStock], act \in [Products \ {"pA"} -> BOOLEAN] :
       products = [p \in Products |->
                     [isActive |-> (p = "pA" \/ act[p]),
                      stock |-> st[p], price |-> PriceOf[p]]]
  /\ orders = <<>>
  /\ payments = <<>>
  /\ events = {}
  /\ carts = [u \in Users |-> <<>>]
  /\ cache = {}
  /\ predefined = [e \in PredefinedErrors |-> NoDetails]
  /\ loc = [p \in Procs |-> NoLoc]
  /\ calls = 0
  /\ stock0 = [p \in Products |-> products[p].stock]
  /\ cancels = [o \in 1..(MaxCalls + 1) |-> 0]
  /\ restored = [o \in 1..(MaxCalls + 1) |-> 0]
  /\ reserved = [o \in 1..(MaxCalls + 1) |-> 0]

(***************************************************************************)
(* Requests                                                                *)
(***************************************************************************)
CreateOrderCmd(u, s, b, its) ==
  [NoCmd EXCEPT !.op = "CreateOrder", !.userID = u, !.shippingAddressID = s,
                !.billingAddressID = b, !.items = its]

UpdateOrderStatusCmd(o, st) ==
  [NoCmd EXCEPT !.op = "UpdateOrderStatus", !.orderID = o, !.status = st]

CancelOrderCmd(o, u) ==
  [NoCmd EXCEPT !.op = "CancelOrder", !.orderID = o, !.userID = u]

ProcessPaymentCmd(o, amt) ==
  [NoCmd EXCEPT !.op = "ProcessPayment", !.orderID = o, !.amount = amt]

CreateOrderFromCartCmd(u, s, b) ==
  [NoCmd EXCEPT !.op = "CreateOrderFromCart", !.userID = u, !.shippingAddressID = s,
                !.billingAddressID = b]

UpdatePaymentStatusCmd(pid, st) ==
  [NoCmd EXCEPT !.op = "UpdatePaymentStatus", !.paymentID = pid, !.status = st]

CreateShipmentCmd(o) ==
  [NoCmd EXCEPT !.op = "CreateShipment", !.orderID = o]

\* the command names a shipment; o is the order that shipment belongs to
UpdateShipmentStatusCmd(o, sid, st) ==
  [NoCmd EXCEPT !.op = "UpdateShipmentStatus", !.orderID = o, !.shipmentID = sid,
                !.status = st]

Item(p, q) == [productID |-> p, quantity |-> q]

ItemLists ==
  LET its == {Item(p, q) : p \in Products, q \in 1..MaxQty}
  IN  UNION {[1..n -> its] : n \in 1..MaxLines}

\* requests whose user and addresses pass the checks of lines 84-103
GoodCreateOrders ==
  {CreateOrderCmd("u1", "a1", "a1", its) : its \in ItemLists}
    \cup {CreateOrderCmd("u2", "a2", "a2", <<Item("pA", 1)>>)}

\* one request for each way a CreateOrder can be turned down before it reads stock
BadCreateOrders ==
  LET one == <<Item("pA", 1)>>
  IN  {CreateOrderCmd(UnknownUser, "a1", "a1", one),
       CreateOrderCmd("u1", UnknownAddress, "a1", one),
       CreateOrderCmd("u1", "a1", UnknownAddress, one),
       CreateOrderCmd("u1", "a2", "a1", one),
       CreateOrderCmd("u1", "a1", "a2", one),
       CreateOrderCmd("u1", "a1", "a1", <<Item(UnknownProduct, 1)>>),
       CreateOrderCmd("u1", "a1", "a1", <<Item("pA", 1), Item(UnknownProduct, 1)>>)}

OrderIDs == 1..(Len(orders) + 1)

PaymentAmounts(o) ==
  IF OrderExists(o) THEN {orders[o].total, orders[o].total + 1} ELSE {0}

FirstLabel(c) ==
  CASE c.op = "CreateOrder" -> "co_user"
    [] c.op = "UpdateOrderStatus" -> "us_get"
    [] c.op = "CancelOrder" -> "ca_get"
    [] c.op = "ProcessPayment" -> "pp_get"
    [] c.op = "CreateOrderFromCart" -> "cf_get"
    [] c.op = "UpdatePaymentStatus" -> "up_get"
    [] c.op = "CreateShipment" -> "cs_get"
    [] c.op = "UpdateShipmentStatus" -> "ss_ret"

(***************************************************************************)
(* Helpers on a process's local state                                      *)
(***************************************************************************)
At(p, l) == loc[p].pc = l

Local(p, f) == loc' = [loc EXCEPT ![p] = f]

\* the handler returns res: its local variables are gone
Returned(l, res) ==
  [l EXCEPT !.pc = "done", !.result = res, !.caller = "none", !.idx = 0,
            !.orderItems = <<>>, !.product = NoProduct, !.order = NoOrder,
            !.uorder = NoOrder, !.newStatus = "none", !.payment = 0,
            !.paymentRow = NoPayment]

Return(p, res) == Local(p, Returned(loc[p], res))

Stores == <<products, orders, payments, events>>
History == <<stock0, cancels, restored, reserved>>

\* CreateOrder calls that have not yet reached or passed orderRepo.Create
OrdersUnderway ==
  Cardinality({q \in Procs :
                 loc[q].pc \in {"cf_get", "co_user", "co_ship", "co_bill", "co_get",
                                "co_create"}})

\* Handle: the mediator hands command c to its handler on request process p
Handle(p, c) ==
  /\ loc[p].pc \in {"idle", "done"}
  /\ c.op \in {"CreateOrder", "CreateOrderFromCart"}
       => Len(orders) + OrdersUnderway < MaxOrders
  /\ calls' = calls + 1
  /\ Local(p, [NoLoc EXCEPT !.pc = FirstLabel(c), !.cmd = c,
                            !.newStatus = c.status,
                            !.caller = c.op,
                            !.pre = [stock |-> [q \in Products |-> products[q].stock],
                                     orders |-> Len(orders),
                                     order |-> IF OrderExists(c.orderID)
                                                 THEN orders[c.orderID]
                                                 ELSE NoOrder,
                                     cart |-> IF c.userID \in Users
                                                THEN carts[c.userID]
                                                ELSE <<>>,
                                     payments |-> Len(payments)]])
  /\ UNCHANGED <<Stores, carts, cache, predefined, History>>

\* a request of a run that makes MaxCalls requests at most
Begin(p, c) ==
  /\ calls < MaxCalls
  /\ Handle(p, c)

(***************************************************************************)
(* handleCreateOrder                                                       *)
(***************************************************************************)
\* line 84-87: userRepo.GetByID
CoGetUser(p) ==
  /\ At(p, "co_user")
  /\ IF loc[p].cmd.userID \in Users
       THEN Local(p, [loc[p] EXCEPT !.pc = "co_ship"])
       ELSE Return(p, "USER_NOT_FOUND")
  /\ UNCHANGED <<Stores, carts, cache, predefined, calls, History>>

\* line 90-93: addressRepo.GetByID(ShippingAddressID)
CoGetShippingAddress(p) ==
  /\ At(p, "co_ship")
  /\ IF loc[p].cmd.shippingAddressID \in Addresses
       THEN Local(p, [loc[p] EXCEPT !.pc = "co_bill"])
       ELSE Return(p, "ADDRESS_NOT_FOUND")
  /\ UNCHANGED <<Stores, carts, cache, predefined, calls, History>>

\* line 95-107: addressRepo.GetByID(BillingAddressID), then the ownership check
CoGetBillingAddress(p) ==
  /\ At(p, "co_bill")
  /\ LET c == loc[p].cmd IN
       IF c.billingAddressID \notin Addresses
         THEN Return(p, "ADDRESS_NOT_FOUND")
       ELSE IF \/ AddressOwner[c.shippingAddressID] # c.userID
               \/ AddressOwner[c.billingAddressID] # c.userID
         THEN Return(p, "FORBIDDEN")
       ELSE Local(p, [loc[p] EXCEPT
                        !.pc = IF Len(c.items) = 0 THEN "co_create" ELSE "co_get",
                        !.idx = 1])
  /\ UNCHANGED <<Stores, carts, cache, predefined, calls, History>>

\* a validation loop that takes the line's quantity off the stock as soon as
\* the line passes, and gives nothing back when a later line is turned down
CoValidateItemReserving(p) ==
  /\ At(p, "co_get")
  /\ LET c == loc[p].cmd
         item == c.items[loc[p].idx]
     IN  IF item.productID \notin Products
           THEN Return(p, "PRODUCT_NOT_FOUND") /\ UNCHANGED products
         ELSE IF ~CanOrder(GetProduct(item.productID), item.quantity)
           THEN Return(p, "INSUFFICIENT_STOCK") /\ UNCHANGED products
         ELSE /\ products' = UpdateStock(products, item.productID,
                                         products[item.productID].stock - item.quantity)
              /\ Local(p, [loc[p] EXCEPT
                   !.orderItems = Append(@, [productID |-> item.productID,
                                             quantity |-> item.quantity,
                                             unitPrice |-> products[item.productID].price]),
                   !.idx = @ + 1,
                   !.pc = IF loc[p].idx = Len(c.items) THEN "co_create" ELSE "co_get"])
  /\ UNCHANGED <<orders, payments, events, carts, cache, predefined, calls, History>>

\* line 109-132: one turn of the validation loop: productRepo.GetByID, CanOrder,
\* snapshot of the line
CoValidateItem(p) ==
  /\ At(p, "co_get")
  /\ LET c == loc[p].cmd
         item == c.items[loc[p].idx]
     IN  IF item.productID \notin Products
           THEN Return(p, "PRODUCT_NOT_FOUND")
         ELSE IF ~CanOrder(GetProduct(item.productID), item.quantity)
           THEN Return(p, "INSUFFICIENT_STOCK")
         ELSE Local(p, [loc[p] EXCEPT
                 !.orderItems = Append(@, [productID |-> item.productID,
                                           quantity |-> item.quantity,
                                           unitPrice |-> products[item.productID].price]),
                 !.idx = @ + 1,
                 !.pc = IF loc[p].idx = Len(c.items) THEN "co_create" ELSE "co_get"])
  /\ UNCHANGED <<Stores, carts, cache, predefined, calls, History>>

\* line 109-132 in a build whose Product entity is the one whose CanOrder
\* does not look at the sign of the quantity
CoValidateItemPart006(p) ==
  /\ At(p, "co_get")
  /\ LET c == loc[p].cmd
         item == c.items[loc[p].idx]
     IN  IF item.productID \notin Products
           THEN Return(p, "PRODUCT_NOT_FOUND")
         ELSE IF ~CanOrderPart006(GetProduct(item.productID), item.quantity)
           THEN Return(p, "INSUFFICIENT_STOCK")
         ELSE Local(p, [loc[p] EXCEPT
                 !.orderItems = Append(@, [productID |-> item.productID,
                                           quantity |-> item.quantity,
                                           unitPrice |-> products[item.productID].price]),
                 !.idx = @ + 1,
                 !.pc = IF loc[p].idx = Len(c.items) THEN "co_create" ELSE "co_get"])
  /\ UNCHANGED <<Stores, carts, cache, predefined, calls, History>>

\* an Order whose tax column drops the fraction of a cent instead of rounding it
NewOrderTaxTruncated(id, userID, orderItems) ==
  LET subtotal == SumSeq([i \in DOMAIN orderItems |->
                            orderItems[i].unitPrice * orderItems[i].quantity])
  IN  [NoOrder EXCEPT
         !.id = id, !.userID = userID,
         !.status = "pending", !.paymentStatus = "pending",
         !.shippingStatus = "pending",
         !.items = orderItems,
         !.subtotal = subtotal,
         !.taxAmount = (subtotal * TaxRatePercent) \div 100,
         !.total = RoundToCents(subtotal * 100 + subtotal * TaxRatePercent)]

\* line 134-156: the Order value built from the validated lines; the amounts
\* are what the decimal(10,2) columns keep of subtotal, 8% tax and their sum
NewOrder(id, userID, orderItems) ==
  LET subtotal == SumSeq([i \in DOMAIN orderItems |->
                            orderItems[i].unitPrice * orderItems[i].quantity])
  IN  [NoOrder EXCEPT
         !.id = id, !.userID = userID,
         !.status = "pending", !.paymentStatus = "pending",
         !.shippingStatus = "pending",
         !.items = orderItems,
         !.subtotal = subtotal,
         !.taxAmount = RoundToCents(subtotal * TaxRatePercent),
         !.total = RoundToCents(subtotal * 100 + subtotal * TaxRatePercent)]

\* line 158-161: orderRepo.Create inserts the order and its items in one
\* transaction
CoCreate(p) ==
  /\ At(p, "co_create")
  /\ LET o == NewOrder(Len(orders) + 1, loc[p].cmd.userID, loc[p].orderItems) IN
       IF \E i \in DOMAIN o.items : o.items[i].quantity <= 0
         THEN \* order_items carries CHECK (quantity > 0): the transaction
              \* is rolled back
              /\ Return(p, "DATABASE_ERROR")
              /\ UNCHANGED orders
         ELSE /\ orders' = Append(orders, o)
              /\ Local(p, [loc[p] EXCEPT
                   !.order = o, !.idx = 1,
                   !.pc = IF Len(loc[p].cmd.items) = 0 THEN "co_pub" ELSE "co_sget"])
  /\ UNCHANGED <<products, payments, events, carts, cache, predefined, calls, History>>

\* line 165: productRepo.GetByID in the stock loop
CoStockGet(p) ==
  /\ At(p, "co_sget")
  /\ Local(p, [loc[p] EXCEPT
       !.product = GetProduct(loc[p].cmd.items[loc[p].idx].productID),
       !.pc = "co_supd"])
  /\ UNCHANGED <<Stores, carts, cache, predefined, calls, History>>

\* line 166-170: productRepo.UpdateStock(product.Stock - item.Quantity)
CoStockUpdate(p) ==
  /\ At(p, "co_supd")
  /\ LET item == loc[p].cmd.items[loc[p].idx] IN
       /\ products' = UpdateStock(products, item.productID,
                                  loc[p].product.stock - item.quantity)
       /\ Local(p, [loc[p] EXCEPT
            !.product = NoProduct, !.idx = @ + 1,
            !.pc = IF loc[p].idx = Len(loc[p].cmd.items) THEN "co_pub" ELSE "co_sget"])
  /\ reserved' = [reserved EXCEPT ![loc[p].order.id] = @ + 1]
  /\ UNCHANGED <<orders, payments, events, carts, cache, predefined,
                 calls, stock0, cancels, restored>>

\* after handleCreateOrder returned nil: back in handleCreateOrderFromCart at
\* line 226, or the request is finished
AfterCreateOrder(l) ==
  IF l.caller = "CreateOrderFromCart"
    THEN [l EXCEPT !.pc = "cf_clear", !.idx = 0, !.orderItems = <<>>,
                   !.product = NoProduct, !.order = NoOrder]
    ELSE Returned(l, "ok")

\* line 172-187: eventPublisher.Publish(OrderCreated), return nil
CoPublish(p) ==
  /\ At(p, "co_pub")
  /\ events' = events \cup {<<"OrderCreated", loc[p].order.id>>}
  /\ Local(p, AfterCreateOrder(loc[p]))
  /\ UNCHANGED <<products, orders, payments, carts, cache, predefined, calls, History>>

CreateOrderSteps(p) ==
  \/ CoGetUser(p)
  \/ CoGetShippingAddress(p)
  \/ CoGetBillingAddress(p)
  \/ CoValidateItem(p)
  \/ CoCreate(p)
  \/ CoStockGet(p)
  \/ CoStockUpdate(p)
  \/ CoPublish(p)

(***************************************************************************)
(* handleUpdateOrderStatus (also called by handleCancelOrder, line 321)    *)
(***************************************************************************)
\* OrderRepository.UpdateStatus: UPDATE orders SET status = ? WHERE id = ?
UpdateStatus(os, id, status) == [os EXCEPT ![id].status = status]

\* OrderRepository.Update: gorm Save writes every column of the row from the
\* value it is given
Update(os, o) == [os EXCEPT ![o.id] = o]

\* line 259-270: the timestamps stamped on the handler's copy of the order
StampTimestamps(o, status) ==
  CASE status = "shipped" ->
         [o EXCEPT !.shippedAt = TRUE, !.shippingStatus = "shipped"]
    [] status = "delivered" ->
         [o EXCEPT !.deliveredAt = TRUE, !.shippingStatus = "delivered"]
    [] status = "cancelled" ->
         [o EXCEPT !.cancelledAt = TRUE]
    [] OTHER -> o

\* line 246-252: orderRepo.GetByID
UsGet(p) ==
  /\ At(p, "us_get")
  /\ IF OrderExists(loc[p].cmd.orderID)
       THEN Local(p, [loc[p] EXCEPT !.uorder = orders[loc[p].cmd.orderID],
                                    !.pc = "us_upd"])
       ELSE Return(p, "ORDER_NOT_FOUND")
  /\ UNCHANGED <<Stores, carts, cache, predefined, calls, History>>

\* line 254-257: orderRepo.UpdateStatus(cmd.OrderID, cmd.Status)
UsUpdateStatus(p) ==
  /\ At(p, "us_upd")
  /\ orders' = UpdateStatus(orders, loc[p].cmd.orderID, loc[p].newStatus)
  /\ Local(p, [loc[p] EXCEPT !.pc = "us_save"])
  /\ UNCHANGED <<products, payments, events, carts, cache, predefined, calls, History>>

\* line 259-274: stamp the handler's copy (read at line 247) and
\* orderRepo.Update it
UsSave(p) ==
  /\ At(p, "us_save")
  /\ LET o == StampTimestamps(loc[p].uorder, loc[p].newStatus) IN
       /\ orders' = Update(orders, o)
       /\ Local(p, [loc[p] EXCEPT !.uorder = o, !.pc = "us_pub"])
  /\ UNCHANGED <<products, payments, events, carts, cache, predefined, calls, History>>

\* after handleUpdateOrderStatus returned nil: back in handleCancelOrder at
\* line 325, or the request is finished
AfterUpdateOrderStatus(l) ==
  IF l.caller = "CancelOrder"
    THEN [l EXCEPT !.uorder = NoOrder, !.idx = 1,
                   !.pc = IF Len(l.order.items) = 0 THEN "ca_pub" ELSE "ca_rget"]
    ELSE Returned(l, "ok")

\* line 276-291: eventPublisher.Publish(OrderStatusChanged), return nil
UsPublish(p) ==
  /\ At(p, "us_pub")
  /\ events' = events \cup {<<"OrderStatusChanged", loc[p].cmd.orderID>>}
  /\ Local(p, AfterUpdateOrderStatus(loc[p]))
  /\ UNCHANGED <<products, orders, payments, carts, cache, predefined, calls, History>>

UpdateOrderStatusSteps(p) ==
  \/ UsGet(p)
  \/ UsUpdateStatus(p)
  \/ UsSave(p)
  \/ UsPublish(p)

(***************************************************************************)
(* handleCancelOrder                                                       *)
(***************************************************************************)
\* a handler that cancels the order for whoever asks
CaGetAnyUser(p) ==
  /\ At(p, "ca_get")
  /\ LET c == loc[p].cmd IN
       IF ~OrderExists(c.orderID)
         THEN Return(p, "ORDER_NOT_FOUND")
       ELSE IF ~CanBeCancelled(orders[c.orderID])
         THEN Return(p, "ORDER_CANNOT_BE_CANCELLED")
       ELSE Local(p, [loc[p] EXCEPT !.order = orders[c.orderID],
                                    !.newStatus = "cancelled",
                                    !.pc = "us_get"])
  /\ UNCHANGED <<Stores, carts, cache, predefined, calls, History>>

\* line 297-319: orderRepo.GetByID, ownership, CanBeCancelled, then the call
\* of handleUpdateOrderStatus with status cancelled
CaGet(p) ==
  /\ At(p, "ca_get")
  /\ LET c == loc[p].cmd IN
       IF ~OrderExists(c.orderID)
         THEN Return(p, "ORDER_NOT_FOUND")
       ELSE IF orders[c.orderID].userID # c.userID
         THEN Return(p, "FORBIDDEN")
       ELSE IF ~CanBeCancelled(orders[c.orderID])
         THEN Return(p, "ORDER_CANNOT_BE_CANCELLED")
       ELSE Local(p, [loc[p] EXCEPT !.order = orders[c.orderID],
                                    !.newStatus = "cancelled",
                                    !.pc = "us_get"])
  /\ UNCHANGED <<Stores, carts, cache, predefined, calls, History>>

\* line 326-331: productRepo.GetByID in the restore loop
CaRestoreGet(p) ==
  /\ At(p, "ca_rget")
  /\ Local(p, [loc[p] EXCEPT
       !.product = GetProduct(loc[p].order.items[loc[p].idx].productID),
       !.pc = "ca_rupd"])
  /\ UNCHANGED <<Stores, carts, cache, predefined, calls, History>>

\* where the restore loop goes after the line at idx
NextRestore(l) ==
  [l EXCEPT !.product = NoProduct, !.idx = @ + 1,
            !.pc = IF l.idx = Len(l.order.items) THEN "ca_pub" ELSE "ca_rget"]

\* line 333-337: productRepo.UpdateStock(product.Stock + item.Quantity)
CaRestoreUpdate(p) ==
  /\ At(p, "ca_rupd")
  /\ LET item == loc[p].order.items[loc[p].idx] IN
       products' = UpdateStock(products, item.productID,
                               loc[p].product.stock + item.quantity)
  /\ restored' = [restored EXCEPT ![loc[p].cmd.orderID] = @ + 1]
  /\ Local(p, NextRestore(loc[p]))
  /\ UNCHANGED <<orders, payments, events, carts, cache, predefined,
                 calls, stock0, cancels, reserved>>

\* line 339-354: eventPublisher.Publish(OrderCancelled), return nil
CaPublish(p) ==
  /\ At(p, "ca_pub")
  /\ events' = events \cup {<<"OrderCancelled", loc[p].cmd.orderID>>}
  /\ cancels' = [cancels EXCEPT ![loc[p].cmd.orderID] = @ + 1]
  /\ Return(p, "ok")
  /\ UNCHANGED <<products, orders, payments, carts, cache, predefined,
                 calls, stock0, restored, reserved>>

CancelOrderSteps(p) ==
  \/ CaGet(p)
  \/ CaRestoreGet(p)
  \/ CaRestoreUpdate(p)
  \/ CaPublish(p)

(***************************************************************************)
(* handleProcessPayment                                                    *)
(***************************************************************************)
\* a handler that takes whatever amount it is handed
PpGetAnyAmount(p) ==
  /\ At(p, "pp_get")
  /\ LET c == loc[p].cmd IN
       IF ~OrderExists(c.orderID)
         THEN Return(p, "ORDER_NOT_FOUND")
       ELSE Local(p, [loc[p] EXCEPT !.order = orders[c.orderID],
                                    !.pc = "pp_create"])
  /\ UNCHANGED <<Stores, carts, cache, predefined, calls, History>>

\* line 360-369: orderRepo.GetByID, then the amount check
PpGet(p) ==
  /\ At(p, "pp_get")
  /\ LET c == loc[p].cmd IN
       IF ~OrderExists(c.orderID)
         THEN Return(p, "ORDER_NOT_FOUND")
       ELSE IF c.amount # orders[c.orderID].total
         THEN Return(p, "PAYMENT_FAILED")
       ELSE Local(p, [loc[p] EXCEPT !.order = orders[c.orderID],
                                    !.pc = "pp_create"])
  /\ UNCHANGED <<Stores, carts, cache, predefined, calls, History>>

\* line 371-384: paymentRepo.Create of a Payment in status processing
PpCreate(p) ==
  /\ At(p, "pp_create")
  /\ payments' = Append(payments,
                        [id |-> Len(payments) + 1, orderID |-> loc[p].cmd.orderID,
                         amount |-> loc[p].cmd.amount, status |-> "processing",
                         processedAt |-> FALSE])
  /\ Local(p, [loc[p] EXCEPT !.payment = Len(payments) + 1, !.pc = "pp_upd"])
  /\ UNCHANGED <<products, orders, events, carts, cache, predefined, calls, History>>

\* line 386-394: the payment is marked completed and paymentRepo.Update'd
PpUpdate(p) ==
  /\ At(p, "pp_upd")
  /\ payments' = [payments EXCEPT ![loc[p].payment].status = "completed",
                                  ![loc[p].payment].processedAt = TRUE]
  /\ Local(p, [loc[p] EXCEPT !.pc = "pp_save"])
  /\ UNCHANGED <<products, orders, events, carts, cache, predefined, calls, History>>

\* line 396-400: order.PaymentStatus = completed on the handler's copy (read at
\* line 361), orderRepo.Update
PpSave(p) ==
  /\ At(p, "pp_save")
  /\ LET o == [loc[p].order EXCEPT !.paymentStatus = "completed"] IN
       /\ orders' = Update(orders, o)
       /\ Local(p, [loc[p] EXCEPT !.order = o, !.pc = "pp_pub"])
  /\ UNCHANGED <<products, payments, events, carts, cache, predefined, calls, History>>

\* line 402-419: eventPublisher.Publish(PaymentProcessed), return nil
PpPublish(p) ==
  /\ At(p, "pp_pub")
  /\ events' = events \cup {<<"PaymentProcessed", loc[p].cmd.orderID>>}
  /\ Return(p, "ok")
  /\ UNCHANGED <<products, orders, payments, carts, cache, predefined, calls, History>>

ProcessPaymentSteps(p) ==
  \/ PpGet(p)
  \/ PpCreate(p)
  \/ PpUpdate(p)
  \/ PpSave(p)
  \/ PpPublish(p)

(***************************************************************************)
(* handleAddToCart (CartCommandHandler): the one way a line gets into a    *)
(* cart.  A call that is turned down changes nothing and is left out.      *)
(***************************************************************************)
\* the index of product q's line in cart, 0 if there is none
LineOf(cart, q) ==
  IF \E i \in DOMAIN cart : cart[i].productID = q
    THEN CHOOSE i \in DOMAIN cart : cart[i].productID = q
    ELSE 0

\* CartRepository.AddItem: a line of the same product takes the quantity on
\* top of its own, otherwise the line is added
AddItem(cart, q, n) ==
  IF LineOf(cart, q) # 0
    THEN [cart EXCEPT ![LineOf(cart, q)].quantity = @ + n]
    ELSE Append(cart, Item(q, n))

\* handleAddToCart: user, product, IsActive, CanOrder, cartRepo.GetByUserID,
\* cartRepo.AddItem, Publish(CartItemAdded)
AddToCart(u, q, n) ==
  /\ products[q].isActive
  /\ CanOrder(GetProduct(q), n)
  /\ \A i \in DOMAIN AddItem(carts[u], q, n) : AddItem(carts[u], q, n)[i].quantity <= MaxQty
  /\ carts' = [carts EXCEPT ![u] = AddItem(@, q, n)]
  /\ events' = events \cup {<<"CartItemAdded", 0>>}
  /\ UNCHANGED <<products, orders, payments, loc, cache, predefined, calls, History>>

(***************************************************************************)
(* handleCreateOrderFromCart                                               *)
(***************************************************************************)
\* a handler that takes the lines out of the cart as it reads them
CfGetCartTaking(p) ==
  /\ At(p, "cf_get")
  /\ LET cart == carts[loc[p].cmd.userID] IN
       IF Len(cart) = 0
         THEN Return(p, "CART_EMPTY") /\ UNCHANGED carts
         ELSE /\ Local(p, [loc[p] EXCEPT
                   !.cmd.items = [i \in DOMAIN cart |->
                                    Item(cart[i].productID, cart[i].quantity)],
                   !.pc = "co_user"])
              /\ carts' = [carts EXCEPT ![loc[p].cmd.userID] = <<>>]
  /\ UNCHANGED <<Stores, cache, predefined, calls, History>>

\* line 193-220: cartRepo.GetByUserID (an absent cart is created empty),
\* IsEmpty, the cart's lines become the items of the CreateOrder command
CfGetCart(p) ==
  /\ At(p, "cf_get")
  /\ LET cart == carts[loc[p].cmd.userID] IN
       IF Len(cart) = 0
         THEN Return(p, "CART_EMPTY")
         ELSE Local(p, [loc[p] EXCEPT
                 !.cmd.items = [i \in DOMAIN cart |->
                                  Item(cart[i].productID, cart[i].quantity)],
                 !.pc = "co_user"])
  /\ UNCHANGED <<Stores, carts, cache, predefined, calls, History>>

\* CartRepository.ClearItems: DELETE FROM cart_items WHERE cart_id = ?
ClearItems(cs, u) == [cs EXCEPT ![u] = <<>>]

\* line 226-230: cartRepo.ClearItems
CfClearItems(p) ==
  /\ At(p, "cf_clear")
  /\ carts' = ClearItems(carts, loc[p].cmd.userID)
  /\ Local(p, [loc[p] EXCEPT !.pc = "cf_pub"])
  /\ UNCHANGED <<Stores, cache, predefined, calls, History>>

\* line 232-240: eventPublisher.Publish(CartCleared), return nil
CfPublish(p) ==
  /\ At(p, "cf_pub")
  /\ events' = events \cup {<<"CartCleared", 0>>}
  /\ Return(p, "ok")
  /\ UNCHANGED <<products, orders, payments, carts, cache, predefined, calls, History>>

CreateOrderFromCartSteps(p) ==
  \/ CfGetCart(p)
  \/ CfClearItems(p)
  \/ CfPublish(p)

(***************************************************************************)
(* handleUpdatePaymentStatus                                               *)
(***************************************************************************)
\* line 425-429: paymentRepo.GetByID
UpGet(p) ==
  /\ At(p, "up_get")
  /\ IF loc[p].cmd.paymentID \in DOMAIN payments
       THEN Local(p, [loc[p] EXCEPT !.paymentRow = payments[loc[p].cmd.paymentID],
                                    !.pc = "up_upd"])
       ELSE Return(p, "PAYMENT_NOT_FOUND")
  /\ UNCHANGED <<Stores, carts, cache, predefined, calls, History>>

\* line 431-444: the handler's copy takes the status (and the processed time
\* when completed); paymentRepo.Update saves the copy
UpUpdate(p) ==
  /\ At(p, "up_upd")
  /\ LET row == [loc[p].paymentRow EXCEPT
                   !.status = loc[p].cmd.status,
                   !.processedAt = (loc[p].cmd.status = "completed") \/ @]
     IN  /\ payments' = [payments EXCEPT ![row.id] = row]
         /\ Local(p, [loc[p] EXCEPT !.paymentRow = row, !.pc = "up_oget"])
  /\ UNCHANGED <<products, orders, events, carts, cache, predefined, calls, History>>

\* line 446-450: orderRepo.GetByID(payment.OrderID)
UpGetOrder(p) ==
  /\ At(p, "up_oget")
  /\ Local(p, [loc[p] EXCEPT !.order = orders[loc[p].paymentRow.orderID],
                             !.pc = "up_save"])
  /\ UNCHANGED <<Stores, carts, cache, predefined, calls, History>>

\* line 452-459: order.PaymentStatus = cmd.Status, orderRepo.Update, return nil
UpSave(p) ==
  /\ At(p, "up_save")
  /\ orders' = Update(orders, [loc[p].order EXCEPT !.paymentStatus = loc[p].cmd.status])
  /\ Return(p, "ok")
  /\ UNCHANGED <<products, payments, events, carts, cache, predefined, calls, History>>

UpdatePaymentStatusSteps(p) ==
  \/ UpGet(p)
  \/ UpUpdate(p)
  \/ UpGetOrder(p)
  \/ UpSave(p)

(***************************************************************************)
(* handleCreateShipment and handleUpdateShipmentStatus                     *)
(***************************************************************************)
\* line 465-474: orderRepo.GetByID, CanBeShipped
CsGet(p) ==
  /\ At(p, "cs_get")
  /\ LET c == loc[p].cmd IN
       IF ~OrderExists(c.orderID)
         THEN Return(p, "ORDER_NOT_FOUND")
       ELSE IF ~CanBeShipped(orders[c.orderID])
         THEN Return(p, "ORDER_CANNOT_BE_SHIPPED")
       ELSE Local(p, [loc[p] EXCEPT !.order = orders[c.orderID], !.pc = "cs_save"])
  /\ UNCHANGED <<Stores, carts, cache, predefined, calls, History>>

\* line 476-500: the shipment is appended to the handler's copy of the order
\* and orderRepo.Update saves the copy: the order's row is written from the
\* copy and the new shipment row is inserted
CsSave(p) ==
  /\ At(p, "cs_save")
  /\ LET id == loc[p].order.id IN
       orders' = [Update(orders, loc[p].order) EXCEPT
                    ![id].shipments = orders[id].shipments + 1]
  /\ Return(p, "ok")
  /\ UNCHANGED <<products, payments, events, carts, cache, predefined, calls, History>>

CreateShipmentSteps(p) ==
  \/ CsGet(p)
  \/ CsSave(p)

\* line 503-511: handleUpdateShipmentStatus logs and returns nil
SsReturn(p) ==
  /\ At(p, "ss_ret")
  /\ Return(p, "ok")
  /\ UNCHANGED <<Stores, carts, cache, predefined, calls, History>>

(***************************************************************************)
(* Specification: one request at a time, every repository call succeeds    *)
(***************************************************************************)
Requests ==
  GoodCreateOrders \cup BadCreateOrders
    \cup {UpdateOrderStatusCmd(o, st) : o \in OrderIDs, st \in OrderStatuses}
    \cup {CancelOrderCmd(o, u) : o \in OrderIDs, u \in Users}
    \cup UNION {{ProcessPaymentCmd(o, amt) : amt \in PaymentAmounts(o)} : o \in OrderIDs}

Steps(p) ==
  \/ CreateOrderSteps(p)
  \/ UpdateOrderStatusSteps(p)
  \/ CancelOrderSteps(p)
  \/ ProcessPaymentSteps(p)

Next ==
  \E p \in Solo :
    \/ \E c \in Requests : Begin(p, c)
    \/ Steps(p)

Spec == Init /\ [][Next]_vars

(***************************************************************************)
(* Failing repository and event sink calls.  Every repository method wraps *)
(* a database error as DATABASE_ERROR (or hands it on); a handler step     *)
(* below is the handler's reaction to the call returning such an error.    *)
(***************************************************************************)
\* line 85-87: userRepo.GetByID fails, the error is returned
CoGetUserErr(p) ==
  /\ At(p, "co_user")
  /\ Return(p, "DATABASE_ERROR")
  /\ UNCHANGED <<Stores, carts, cache, predefined, calls, History>>

\* line 91-93 and 96-98: any error of addressRepo.GetByID is answered with
\* ErrAddressNotFound
CoGetAddressErr(p) ==
  /\ At(p, "co_ship") \/ At(p, "co_bill")
  /\ Return(p, "ADDRESS_NOT_FOUND")
  /\ UNCHANGED <<Stores, carts, cache, predefined, calls, History>>

\* line 111-113: productRepo.GetByID fails in the validation loop
CoValidateItemErr(p) ==
  /\ At(p, "co_get")
  /\ Return(p, "DATABASE_ERROR")
  /\ UNCHANGED <<Stores, carts, cache, predefined, calls, History>>

\* line 159-161: orderRepo.Create fails (database error or duplicate order
\* number); its transaction leaves no row behind
CoCreateErr(p) ==
  /\ At(p, "co_create")
  /\ \E e \in {"DATABASE_ERROR", "DUPLICATE_ORDER_NUMBER"} : Return(p, e)
  /\ UNCHANGED <<Stores, carts, cache, predefined, calls, History>>

\* line 165-166: the error of productRepo.GetByID is dropped and the nil
\* product is dereferenced: the goroutine panics out of the handler
CoStockGetErr(p) ==
  /\ At(p, "co_sget")
  /\ Return(p, "panic")
  /\ UNCHANGED <<Stores, carts, cache, predefined, calls, History>>

\* line 167-169: a failed productRepo.UpdateStock is logged, the loop goes on
CoStockUpdateErr(p) ==
  /\ At(p, "co_supd")
  /\ Local(p, [loc[p] EXCEPT
       !.product = NoProduct, !.idx = @ + 1,
       !.pc = IF loc[p].idx = Len(loc[p].cmd.items) THEN "co_pub" ELSE "co_sget"])
  /\ UNCHANGED <<Stores, carts, cache, predefined, calls, History>>

\* a handler that hands the event sink's error on to its caller
CoPublishErrReturned(p) ==
  /\ At(p, "co_pub")
  /\ Return(p, "EVENT_PUBLISH_FAILED")
  /\ UNCHANGED <<Stores, carts, cache, predefined, calls, History>>

\* line 181-187: a failed Publish is logged, the handler returns nil
CoPublishErr(p) ==
  /\ At(p, "co_pub")
  /\ Local(p, AfterCreateOrder(loc[p]))
  /\ UNCHANGED <<Stores, carts, cache, predefined, calls, History>>

CreateOrderFailures(p) ==
  \/ CoGetUserErr(p)
  \/ CoGetAddressErr(p)
  \/ CoValidateItemErr(p)
  \/ CoCreateErr(p)
  \/ CoStockGetErr(p)
  \/ CoStockUpdateErr(p)
  \/ CoPublishErr(p)

\* line 248-250, 255-257, 272-274: a failed orderRepo call ends
\* handleUpdateOrderStatus (and a handleCancelOrder that called it, line 321)
\* with the error; what was written before stays written
UsRepoErr(p) ==
  /\ At(p, "us_get") \/ At(p, "us_upd") \/ At(p, "us_save")
  /\ Return(p, "DATABASE_ERROR")
  /\ UNCHANGED <<Stores, carts, cache, predefined, calls, History>>

\* line 285-291: a failed Publish is logged
UsPublishErr(p) ==
  /\ At(p, "us_pub")
  /\ Local(p, AfterUpdateOrderStatus(loc[p]))
  /\ UNCHANGED <<Stores, carts, cache, predefined, calls, History>>

UpdateOrderStatusFailures(p) ==
  \/ UsRepoErr(p)
  \/ UsPublishErr(p)

\* line 299-301: orderRepo.GetByID fails
CaGetErr(p) ==
  /\ At(p, "ca_get")
  /\ Return(p, "DATABASE_ERROR")
  /\ UNCHANGED <<Stores, carts, cache, predefined, calls, History>>

\* line 328-331: a failed productRepo.GetByID is logged, the line is skipped
CaRestoreGetErr(p) ==
  /\ At(p, "ca_rget")
  /\ Local(p, NextRestore(loc[p]))
  /\ UNCHANGED <<Stores, carts, cache, predefined, calls, History>>

\* line 334-336: a failed productRepo.UpdateStock is logged
CaRestoreUpdateErr(p) ==
  /\ At(p, "ca_rupd")
  /\ Local(p, NextRestore(loc[p]))
  /\ UNCHANGED <<Stores, carts, cache, predefined, calls, History>>

\* line 348-354: a failed Publish is logged, the handler returns nil
CaPublishErr(p) ==
  /\ At(p, "ca_pub")
  /\ cancels' = [cancels EXCEPT ![loc[p].cmd.orderID] = @ + 1]
  /\ Return(p, "ok")
  /\ UNCHANGED <<Stores, carts, cache, predefined, calls, stock0, restored, reserved>>

CancelOrderFailures(p) ==
  \/ CaGetErr(p)
  \/ CaRestoreGetErr(p)
  \/ CaRestoreUpdateErr(p)
  \/ CaPublishErr(p)

\* line 362-364, 382-384, 392-394, 398-400: a failed repository call ends
\* handleProcessPayment with the error; what was written before stays written
PpRepoErr(p) ==
  /\ At(p, "pp_get") \/ At(p, "pp_create") \/ At(p, "pp_upd") \/ At(p, "pp_save")
  /\ Return(p, "DATABASE_ERROR")
  /\ UNCHANGED <<Stores, carts, cache, predefined, calls, History>>

\* line 413-419: a failed Publish is logged
PpPublishErr(p) ==
  /\ At(p, "pp_pub")
  /\ Return(p, "ok")
  /\ UNCHANGED <<Stores, carts, cache, predefined, calls, History>>

ProcessPaymentFailures(p) ==
  \/ PpRepoErr(p)
  \/ PpPublishErr(p)

\* line 194-197: cartRepo.GetByUserID fails
CfGetCartErr(p) ==
  /\ At(p, "cf_get")
  /\ Return(p, "DATABASE_ERROR")
  /\ UNCHANGED <<Stores, carts, cache, predefined, calls, History>>

\* line 227-230: a failed cartRepo.ClearItems is logged
CfClearItemsErr(p) ==
  /\ At(p, "cf_clear")
  /\ Local(p, [loc[p] EXCEPT !.pc = "cf_pub"])
  /\ UNCHANGED <<Stores, carts, cache, predefined, calls, History>>

\* line 234-240: a failed Publish is logged, the handler returns nil
CfPublishErr(p) ==
  /\ At(p, "cf_pub")
  /\ Return(p, "ok")
  /\ UNCHANGED <<Stores, carts, cache, predefined, calls, History>>

CreateOrderFromCartFailures(p) ==
  \/ CfGetCartErr(p)
  \/ CfClearItemsErr(p)
  \/ CfPublishErr(p)

\* line 427-429, 442-444, 448-450, 453-455: a failed repository call ends
\* handleUpdatePaymentStatus with the error; what was written before stays
\* written
UpRepoErr(p) ==
  /\ At(p, "up_get") \/ At(p, "up_upd") \/ At(p, "up_oget") \/ At(p, "up_save")
  /\ Return(p, "DATABASE_ERROR")
  /\ UNCHANGED <<Stores, carts, cache, predefined, calls, History>>

\* line 467-469, 494-496: a failed orderRepo call ends handleCreateShipment
CsRepoErr(p) ==
  /\ At(p, "cs_get") \/ At(p, "cs_save")
  /\ Return(p, "DATABASE_ERROR")
  /\ UNCHANGED <<Stores, carts, cache, predefined, calls, History>>

(***************************************************************************)
(* Specification: one CreateOrder request against any catalog, any of its  *)
(* repository or event sink calls may fail                                 *)
(***************************************************************************)
\* the requests of one user for single lines
SingleLineRequests ==
  {CreateOrderCmd("u1", "a1", "a1", <<Item(q, n)>>) : q \in Products, n \in 1..MaxQty}
    \cup {CancelOrderCmd(o, "u1") : o \in OrderIDs}

NextFail ==
  \E p \in Solo :
    \/ \E c \in GoodCreateOrders \cup BadCreateOrders : calls = 0 /\ Begin(p, c)
    \/ CreateOrderSteps(p)
    \/ CreateOrderFailures(p)

SpecFail == Init /\ [][NextFail]_vars

(***************************************************************************)
(* Specification: two requests at a time, their repository calls           *)
(* interleave; every call succeeds; the requests create and cancel orders  *)
(***************************************************************************)
NextConc ==
  \E p \in Procs :
    \/ \E c \in SingleLineRequests : Begin(p, c)
    \/ CreateOrderSteps(p)
    \/ UpdateOrderStatusSteps(p)
    \/ CancelOrderSteps(p)

SpecConc == Init /\ [][NextConc]_vars

(***************************************************************************)
(* Specification: one CreateOrder request for a single line, then          *)
(* ProcessPayment requests, one at a time; the repository and event sink   *)
(* calls of ProcessPayment may fail                                        *)
(***************************************************************************)
SingleLineCreateOrders ==
  {CreateOrderCmd("u1", "a1", "a1", <<Item(q, n)>>) : q \in Products, n \in 1..MaxQty}

ProcessPaymentRequests ==
  UNION {{ProcessPaymentCmd(o, amt) : amt \in PaymentAmounts(o)} : o \in OrderIDs}

NextPay ==
  \E p \in Solo :
    \/ \E c \in SingleLineCreateOrders : calls = 0 /\ Begin(p, c)
    \/ \E c \in ProcessPaymentRequests : calls > 0 /\ Begin(p, c)
    \/ CreateOrderSteps(p)
    \/ ProcessPaymentSteps(p)
    \/ ProcessPaymentFailures(p)

SpecPay == Init /\ [][NextPay]_vars

(***************************************************************************)
(* Specification: one CreateOrder request for a single line, then one      *)
(* UpdateOrderStatus request, then CancelOrder requests, one at a time;    *)
(* the repository and event sink calls of the last two may fail            *)
(***************************************************************************)
UpdateOrderStatusRequests ==
  {UpdateOrderStatusCmd(o, st) : o \in OrderIDs, st \in OrderStatuses}

CancelOrderRequests ==
  {CancelOrderCmd(o, u) : o \in OrderIDs, u \in Users}

NextCancel ==
  \E p \in Solo :
    \/ \E c \in SingleLineCreateOrders : calls = 0 /\ Begin(p, c)
    \/ \E c \in UpdateOrderStatusRequests : calls = 1 /\ Begin(p, c)
    \/ \E c \in CancelOrderRequests : calls > 1 /\ Begin(p, c)
    \/ CreateOrderSteps(p)
    \/ UpdateOrderStatusSteps(p)
    \/ UpdateOrderStatusFailures(p)
    \/ CancelOrderSteps(p)
    \/ CancelOrderFailures(p)

SpecCancel == Init /\ [][NextCancel]_vars

(***************************************************************************)
(* Specification: the way of one order to its shipment, one request at a   *)
(* time: a CreateOrder for a single line, up to two requests that pay the  *)
(* order or set its status, then one request about its payment, its        *)
(* shipment or its cancellation; the repository calls of UpdateOrderStatus, *)
(* UpdatePaymentStatus and CreateShipment may fail                         *)
(***************************************************************************)
UpdatePaymentStatusRequests ==
  {UpdatePaymentStatusCmd(pid, st) : pid \in 1..(Len(payments) + 1), st \in PaymentStatuses}

ShipmentRequests ==
  {CreateShipmentCmd(o) : o \in OrderIDs}
    \cup {UpdateShipmentStatusCmd(o, 1, "shipped") : o \in DOMAIN orders}

\* the last request of process p was the creation, a payment or a status update
Preparing(p) ==
  loc[p].cmd.op \in {"CreateOrder", "ProcessPayment", "UpdateOrderStatus"}

NextShip ==
  \E p \in Solo :
    \/ \E c \in SingleLineCreateOrders : calls = 0 /\ Handle(p, c)
    \/ \E c \in ProcessPaymentRequests \cup UpdateOrderStatusRequests :
         calls \in {1, 2} /\ Preparing(p) /\ Handle(p, c)
    \/ \E c \in UpdatePaymentStatusRequests \cup ShipmentRequests \cup CancelOrderRequests :
         Preparing(p) /\ Handle(p, c)
    \/ CreateOrderSteps(p)
    \/ ProcessPaymentSteps(p)
    \/ UpdateOrderStatusSteps(p)
    \/ UsRepoErr(p)
    \/ UpdatePaymentStatusSteps(p)
    \/ UpRepoErr(p)
    \/ CreateShipmentSteps(p)
    \/ CsRepoErr(p)
    \/ SsReturn(p)
    \/ CancelOrderSteps(p)

SpecShip == Init /\ [][NextShip]_vars

(***************************************************************************)
(* Specification: u1 fills the cart, then one CreateOrderFromCart request  *)
(* is made; any of its repository or event sink calls may fail             *)
(***************************************************************************)
\* u1 with own, foreign and unknown addresses; u2, whose cart is empty
CreateOrderFromCartRequests ==
  {CreateOrderFromCartCmd("u1", "a1", "a1"),
   CreateOrderFromCartCmd("u1", "a2", "a1"),
   CreateOrderFromCartCmd("u1", UnknownAddress, "a1"),
   CreateOrderFromCartCmd("u2", "a2", "a2")}

\* no request has been made yet
Shopping == calls = 0 /\ \A p \in Procs : loc[p].pc = "idle"

NextCart ==
  \/ \E q \in Products, n \in 1..MaxQty : Shopping /\ AddToCart("u1", q, n)
  \/ \E p \in Solo :
       \/ \E c \in CreateOrderFromCartRequests : calls = 0 /\ Begin(p, c)
       \/ CreateOrderFromCartSteps(p)
       \/ CreateOrderFromCartFailures(p)
       \/ CreateOrderSteps(p)
       \/ CreateOrderFailures(p)

SpecCart == Init /\ [][NextCart]_vars

(***************************************************************************)
(* Specification: u1 fills the cart, an order is created directly or from  *)
(* the cart, then one request updates its status, cancels it or pays it;   *)
(* every repository call succeeds, every Publish call may fail             *)
(***************************************************************************)
NextPub ==
  \/ \E q \in Products, n \in 1..MaxQty : Shopping /\ AddToCart("u1", q, n)
  \/ \E p \in Solo :
       \/ \E c \in SingleLineCreateOrders \cup {CreateOrderFromCartCmd("u1", "a1", "a1")} :
            calls = 0 /\ Begin(p, c)
       \/ \E c \in UpdateOrderStatusRequests \cup CancelOrderRequests
                      \cup ProcessPaymentRequests :
            calls = 1 /\ Begin(p, c)
       \/ CreateOrderSteps(p)
       \/ CoPublishErr(p)
       \/ CreateOrderFromCartSteps(p)
       \/ CfPublishErr(p)
       \/ UpdateOrderStatusSteps(p)
       \/ UsPublishErr(p)
       \/ CancelOrderSteps(p)
       \/ CaPublishErr(p)
       \/ ProcessPaymentSteps(p)
       \/ PpPublishErr(p)

SpecPub == Init /\ [][NextPub]_vars

(***************************************************************************)
(* Properties                                                              *)
(***************************************************************************)
Finished(p) == loc[p].pc = "done"

\* the quantity of product q on the lines its
RECURSIVE QuantityOf(_, _)
QuantityOf(its, q) ==
  IF its = <<>> THEN 0
  ELSE (IF Head(its).productID = q THEN Head(its).quantity ELSE 0)
         + QuantityOf(Tail(its), q)

\* the quantity of product q on the lines of the orders created and not cancelled
HeldBy(q) ==
  SumSeq([o \in DOMAIN orders |->
            IF cancels[o] = 0 THEN QuantityOf(orders[o].items, q) ELSE 0])

\* process p has finished a CreateOrder for one unit of q that started when
\* one unit was left
TookLastUnit(p, q) ==
  /\ Finished(p)
  /\ loc[p].cmd.op = "CreateOrder"
  /\ loc[p].cmd.items = <<Item(q, 1)>>
  /\ loc[p].pre.stock[q] = 1

\* C1: of two concurrent CreateOrder calls for the last unit of an active
\* product exactly one returns success and the other InsufficientStock
C1_ExactlyOneGetsLastUnit ==
  \A q \in Products :
    (calls = 2 /\ products[q].isActive /\ TookLastUnit(1, q) /\ TookLastUnit(2, q))
      => {loc[1].result, loc[2].result} = {"ok", "INSUFFICIENT_STOCK"}

\* C2: the stock of every product is at least 0 in every reachable state
C2_StockNeverNegative ==
  \A q \in Products : products[q].stock >= 0

\* C3: between calls that run one at a time and all succeed in their
\* repository calls, the stock of every product is its initial stock minus the
\* quantities held by the orders created and not cancelled
C3_StockConservation ==
  (\A p \in Procs : loc[p].pc \in {"idle", "done"})
    => \A q \in Products : products[q].stock = stock0[q] - HeldBy(q)

\* C4: a CancelOrder by the owner succeeds at most once per order, a later
\* one returns OrderCannotBeCancelled, and over all of them each line is
\* restored exactly once
C4_CancelledOnce ==
  \A p \in Procs :
    LET c == loc[p].cmd IN
      (/\ Finished(p)
       /\ c.op = "CancelOrder"
       /\ OrderExists(c.orderID)
       /\ orders[c.orderID].userID = c.userID
       /\ CanBeCancelled(loc[p].pre.order) \/ cancels[c.orderID] > 0)
        => /\ loc[p].result \in {"ok", "ORDER_CANNOT_BE_CANCELLED"}
           /\ cancels[c.orderID] = 1
           /\ restored[c.orderID] = Len(orders[c.orderID].items)

\* the timestamp that goes with a status is set on order o
Stamped(o, status) ==
  /\ status = "shipped" => o.shippedAt
  /\ status = "delivered" => o.deliveredAt
  /\ status = "cancelled" => o.cancelledAt

\* the status a finished UpdateOrderStatus or CancelOrder was to set
TargetStatus(c) == IF c.op = "CancelOrder" THEN "cancelled" ELSE c.status

\* C5: after a successful UpdateOrderStatus or CancelOrder the stored order
\* has the target status and the timestamp of that status is set
C5_StatusPersisted ==
  \A p \in Procs :
    LET c == loc[p].cmd IN
      (Finished(p) /\ c.op \in {"UpdateOrderStatus", "CancelOrder"} /\ loc[p].result = "ok")
        => /\ orders[c.orderID].status = TargetStatus(c)
           /\ Stamped(orders[c.orderID], TargetStatus(c))

\* process p has finished a CreateOrder with an error
CreateOrderFailed(p) ==
  /\ Finished(p)
  /\ loc[p].cmd.op = "CreateOrder"
  /\ loc[p].result \notin {"ok", "panic"}

\* C6: when CreateOrder returns an error every product's stock is what it was
\* before the call and no order has been stored
C6_FailedCreateChangesNothing ==
  \A p \in Procs :
    CreateOrderFailed(p)
      => /\ \A q \in Products : products[q].stock = loc[p].pre.stock[q]
         /\ Len(orders) = loc[p].pre.orders

\* a two line CreateOrder was turned down for its second line after its
\* first line had passed the stock check
C6_Witness ==
  \E p \in Procs :
    /\ CreateOrderFailed(p)
    /\ loc[p].result = "INSUFFICIENT_STOCK"
    /\ Len(loc[p].cmd.items) = 2
    /\ CanOrder(GetProduct(loc[p].cmd.items[1].productID), loc[p].cmd.items[1].quantity)

\* C7: when CreateOrder returns success a pending order is stored and every
\* product's stock has dropped by the quantities of the request's lines
C7_SuccessfulCreateReserves ==
  \A p \in Procs :
    (Finished(p) /\ loc[p].cmd.op = "CreateOrder" /\ loc[p].result = "ok")
      => /\ Len(orders) = loc[p].pre.orders + 1
         /\ orders[Len(orders)].status = "pending"
         /\ orders[Len(orders)].paymentStatus = "pending"
         /\ orders[Len(orders)].shippingStatus = "pending"
         /\ \A q \in Products :
              products[q].stock = loc[p].pre.stock[q] - QuantityOf(loc[p].cmd.items, q)

\* C8: between operations every stock decrement belongs to a stored order
\* and every line of a stored order has been taken off the stock
C8_OrdersAndStockAgree ==
  (\A p \in Procs : loc[p].pc \in {"idle", "done"})
    => /\ \A o \in DOMAIN reserved : reserved[o] > 0 => OrderExists(o)
       /\ \A o \in DOMAIN orders : reserved[o] = Len(orders[o].items)

StatusRank ==
  [pending |-> 1, confirmed |-> 2, processing |-> 3, shipped |-> 4, delivered |-> 5]

\* status to is ahead of status from in pending, confirmed, processing,
\* shipped, delivered
Ahead(from, to) ==
  /\ from \in DOMAIN StatusRank
  /\ to \in DOMAIN StatusRank
  /\ StatusRank[from] < StatusRank[to]

\* C9: an UpdateOrderStatus to a status of the sequence that is not ahead of
\* the order's status returns InvalidStatusTransition and changes nothing
C9_BackwardRejected ==
  \A p \in Procs :
    LET c == loc[p].cmd IN
      (/\ Finished(p)
       /\ c.op = "UpdateOrderStatus"
       /\ loc[p].pre.order # NoOrder
       /\ c.status \in DOMAIN StatusRank
       /\ ~Ahead(loc[p].pre.order.status, c.status))
        => /\ loc[p].result = "INVALID_STATUS_TRANSITION"
           /\ orders[c.orderID] = loc[p].pre.order

CompletedPayments(o) ==
  {i \in DOMAIN payments : payments[i].orderID = o /\ payments[i].status = "completed"}

\* C10: an order has at most one completed Payment, and a ProcessPayment for
\* an order whose paymentStatus is completed is rejected
C10_OneCompletedPayment ==
  /\ \A o \in DOMAIN orders : Cardinality(CompletedPayments(o)) <= 1
  /\ \A p \in Procs :
       (/\ Finished(p)
        /\ loc[p].cmd.op = "ProcessPayment"
        /\ loc[p].pre.order.paymentStatus = "completed")
         => loc[p].result # "ok"

\* process p has finished a ProcessPayment for an existing order with an
\* amount that is not the order's total
PaidWrongAmount(p) ==
  /\ Finished(p)
  /\ loc[p].cmd.op = "ProcessPayment"
  /\ loc[p].pre.order # NoOrder
  /\ loc[p].cmd.amount # loc[p].pre.order.total

\* C11: a ProcessPayment with an amount that differs from the order's total
\* returns PaymentFailed (unless the read of the order itself failed), no
\* Payment row is created and the order's paymentStatus stays what it was
C11_WrongAmountRejected ==
  \A p \in Procs :
    PaidWrongAmount(p)
      => /\ loc[p].result \in {"PAYMENT_FAILED", "DATABASE_ERROR"}
         /\ Len(payments) = loc[p].pre.payments
         /\ orders[loc[p].cmd.orderID].paymentStatus = loc[p].pre.order.paymentStatus

\* a wrong amount was turned down for an order that already has a completed
\* payment
C11_Witness ==
  \E p \in Procs :
    /\ PaidWrongAmount(p)
    /\ loc[p].result = "PAYMENT_FAILED"
    /\ loc[p].pre.order.paymentStatus = "completed"
    /\ Len(payments) = 1

\* process p has finished a CancelOrder for an existing order
CancelFinished(p) ==
  /\ Finished(p)
  /\ loc[p].cmd.op = "CancelOrder"
  /\ loc[p].pre.order # NoOrder

\* the order process p's request names and the stock are what they were when
\* the request began
OrderAndStockUntouched(p) ==
  /\ orders[loc[p].cmd.orderID] = loc[p].pre.order
  /\ \A q \in Products : products[q].stock = loc[p].pre.stock[q]

C15_ForeignCancelRejected ==
  \A p \in Procs :
    (CancelFinished(p) /\ loc[p].pre.order.userID # loc[p].cmd.userID)
      => /\ loc[p].result \in {"FORBIDDEN", "DATABASE_ERROR"}
         /\ OrderAndStockUntouched(p)

\* u2 was refused the cancellation of u1's pending order
C15_Witness ==
  \E p \in Procs :
    /\ CancelFinished(p)
    /\ loc[p].cmd.userID = "u2"
    /\ loc[p].pre.order.userID = "u1"
    /\ loc[p].pre.order.status = "pending"
    /\ loc[p].result = "FORBIDDEN"

\* no request is under way and every request that finished returned success
AllReturnedSuccess ==
  \A p \in Procs : loc[p].pc = "idle" \/ (Finished(p) /\ loc[p].result = "ok")

\* C13: when interleaved CreateOrder and CancelOrder calls have all returned
\* success (and no order was cancelled twice), the stock of every product is
\* its initial stock minus the quantities of the orders created and not
\* cancelled
C13_NoLostStockUpdate ==
  (AllReturnedSuccess /\ \A o \in DOMAIN orders : cancels[o] <= 1)
    => \A q \in Products : products[q].stock = stock0[q] - HeldBy(q)

\* both processes have finished a CancelOrder by the owner for the same order,
\* each begun while the order was pending and not yet stamped as cancelled
CancelledTogether ==
  /\ \A p \in Procs :
       /\ CancelFinished(p)
       /\ loc[p].pre.order.userID = loc[p].cmd.userID
       /\ loc[p].pre.order.status = "pending"
       /\ ~loc[p].pre.order.cancelledAt
  /\ loc[1].cmd.orderID = loc[2].cmd.orderID

\* C14: of two concurrent CancelOrder calls for the same pending order one
\* returns success and the other OrderCannotBeCancelled, and each line is
\* restored to the stock once
C14_ConcurrentCancelOnce ==
  CancelledTogether
    => /\ {loc[1].result, loc[2].result} = {"ok", "ORDER_CANNOT_BE_CANCELLED"}
       /\ restored[loc[1].cmd.orderID] = Len(orders[loc[1].cmd.orderID].items)

\* C16: a CreateShipment or UpdateShipmentStatus for an order that is not in
\* status processing with paymentStatus completed returns OrderCannotBeShipped
\* (unless the read of the order itself failed) and leaves the order as it was
C16_ShipmentNeedsPaidProcessing ==
  \A p \in Procs :
    (/\ Finished(p)
     /\ loc[p].cmd.op \in {"CreateShipment", "UpdateShipmentStatus"}
     /\ loc[p].pre.order # NoOrder
     /\ ~CanBeShipped(loc[p].pre.order))
      => /\ loc[p].result \in {"ORDER_CANNOT_BE_SHIPPED", "DATABASE_ERROR"}
         /\ orders[loc[p].cmd.orderID] = loc[p].pre.order

\* C20: every stored order has total = subtotal + tax + shipping - discount
C20_TotalIsSumOfParts ==
  \A o \in DOMAIN orders :
    orders[o].total = orders[o].subtotal + orders[o].taxAmount
                        + orders[o].shippingAmount - orders[o].discountAmount

\* a shipment was created for an order whose 8% tax is not a whole number of
\* cents
C20_Witness ==
  \E o \in DOMAIN orders :
    /\ orders[o].shipments > 0
    /\ (orders[o].subtotal * TaxRatePercent) % 100 # 0

\* process p has finished a CreateOrderFromCart
FromCartFinished(p) ==
  /\ Finished(p)
  /\ loc[p].cmd.op = "CreateOrderFromCart"

\* C17: when CreateOrderFromCart returns an error the user's cart holds the
\* lines it held before the call and no order has been stored
C17_FailedCheckoutKeepsCart ==
  \A p \in Procs :
    (FromCartFinished(p) /\ loc[p].result \notin {"ok", "panic"})
      => /\ carts[loc[p].cmd.userID] = loc[p].pre.cart
         /\ Len(orders) = loc[p].pre.orders

\* the delegated order creation turned a cart of two lines down for its stock
C17_Witness ==
  \E p \in Procs :
    /\ FromCartFinished(p)
    /\ loc[p].result = "INSUFFICIENT_STOCK"
    /\ Len(loc[p].pre.cart) = 2
    /\ carts[loc[p].cmd.userID] = loc[p].pre.cart

\* the (product, quantity) lines of its
LinesOf(its) == [i \in DOMAIN its |-> Item(its[i].productID, its[i].quantity)]

\* C18: when CreateOrderFromCart returns success the user's cart has no lines
\* and one order holding the cart's former lines has been stored
C18_CheckoutEmptiesCart ==
  \A p \in Procs :
    (FromCartFinished(p) /\ loc[p].result = "ok")
      => /\ carts[loc[p].cmd.userID] = <<>>
         /\ Len(orders) = loc[p].pre.orders + 1
         /\ LinesOf(orders[Len(orders)].items) = LinesOf(loc[p].pre.cart)

\* the positions at which a handler calls eventPublisher.Publish
PublishLabels == {"co_pub", "cf_pub", "us_pub", "ca_pub", "pp_pub"}

\* where a handler is, and with which locals and result, once its Publish call
\* at l.pc is behind it
AfterPublish(l) ==
  CASE l.pc = "co_pub" -> AfterCreateOrder(l)
    [] l.pc = "us_pub" -> AfterUpdateOrderStatus(l)
    [] OTHER -> Returned(l, "ok")

\* C19: whether a Publish call of CreateOrder, CreateOrderFromCart,
\* CancelOrder, UpdateOrderStatus or ProcessPayment succeeds or fails, the step
\* leaves orders, payments, stock and carts as they are and the handler goes
\* on to the same place with the same result
C19_PublishOutcomeIrrelevant ==
  [][\A p \in Procs :
       loc[p].pc \in PublishLabels
         => /\ products' = products
            /\ orders' = orders
            /\ payments' = payments
            /\ carts' = carts
            /\ loc'[p] = AfterPublish(loc[p])]_vars

\* a CancelOrder has returned success although no OrderCancelled event reached
\* the event sink
C19_Witness ==
  \E p \in Procs :
    /\ CancelFinished(p)
    /\ loc[p].result = "ok"
    /\ <<"OrderCancelled", loc[p].cmd.orderID>> \notin events
    /\ <<"OrderStatusChanged", loc[p].cmd.orderID>> \in events

(***************************************************************************)
(* One CreateOrder whose item list is what the JSON binding lets through:  *)
(* an empty list, or one line of any quantity                              *)
(***************************************************************************)
AnyQuantityCreateOrders ==
  {CreateOrderCmd("u1", "a1", "a1", <<>>)}
    \cup {CreateOrderCmd("u1", "a1", "a1", <<Item(q, n)>>) :
            q \in Products, n \in (0 - 1)..MaxQty}

NextItems ==
  \E p \in Solo :
    \/ \E c \in AnyQuantityCreateOrders : calls = 0 /\ Begin(p, c)
    \/ CreateOrderSteps(p)
    \/ CoValidateItemPart006(p)

SpecItems == Init /\ [][NextItems]_vars

\* a CreateOrder call that has returned
CreateOrderFinished(p) == Finished(p) /\ loc[p].cmd.op = "CreateOrder"

\* C21: every stored order has at least one line and only lines of positive
\* quantity, and a CreateOrder whose item list is empty or holds a line of
\* quantity <= 0 returns an error and stores no order
C21_OrdersHaveLines ==
  /\ \A o \in DOMAIN orders :
       /\ Len(orders[o].items) >= 1
       /\ \A i \in DOMAIN orders[o].items : orders[o].items[i].quantity > 0
  /\ \A p \in Procs :
       (/\ CreateOrderFinished(p)
        /\ \/ loc[p].cmd.items = <<>>
           \/ \E i \in DOMAIN loc[p].cmd.items : loc[p].cmd.items[i].quantity <= 0)
         => /\ loc[p].result # "ok"
            /\ Len(orders) = loc[p].pre.orders

\* C22: CanOrder lets a line through exactly when its product is active, its
\* quantity is positive and the quantity is not above the stock: a CreateOrder
\* of one line gets past the validation loop in that case and no other
C22_CanOrderExact ==
  \A p \in Procs :
    (CreateOrderFinished(p) /\ Len(loc[p].cmd.items) = 1)
      => LET item == loc[p].cmd.items[1]
             product == products[item.productID]
         IN  (loc[p].result # "INSUFFICIENT_STOCK")
               <=> /\ product.isActive
                   /\ item.quantity > 0
                   /\ item.quantity <= loc[p].pre.stock[item.productID]

\* C23: within one CreateOrder the stock of every line's product has been
\* taken down by the line's quantity before the order is stored, and the
\* OrderCreated event is handed to the event sink only once the order is stored
C23_StockThenPersistThenEvent ==
  [][/\ Len(orders') = Len(orders) + 1
          => \A q \in Products :
               products[q].stock
                 = stock0[q] - QuantityOf(orders'[Len(orders')].items, q)
     /\ \A e \in events' \ events :
          e[1] = "OrderCreated" => OrderExists(e[2])]_vars

\* a CreateOrder call that is under way or has returned
InCreateOrder(p) == loc[p].cmd.op = "CreateOrder" /\ loc[p].pc # "idle"

\* C24: at every step of a CreateOrder, also the one at which it gives up, if
\* the stock of some product has been taken down for the call then the call's
\* order is stored
C24_NoStockTakenWithoutOrder ==
  \A p \in Procs :
    (InCreateOrder(p) /\ \E q \in Products : products[q].stock < loc[p].pre.stock[q])
      => /\ Len(orders) = loc[p].pre.orders + 1
         /\ LinesOf(orders[Len(orders)].items) = loc[p].cmd.items

\* a CreateOrder of two lines stands between its two stock writes: the first
\* line's quantity is off the stock, the second line's is not
C24_Witness ==
  \E p \in Procs :
    /\ InCreateOrder(p)
    /\ loc[p].pc = "co_sget"
    /\ loc[p].idx = 2
    /\ Len(loc[p].cmd.items) = 2
    /\ \E q \in Products : products[q].stock < loc[p].pre.stock[q]

\* C25: CancelOrder returns success only if the quantity of every line of the
\* order has been added back to the stock of the line's product
C25_CancelSuccessRestoresAll ==
  \A p \in Procs :
    (CancelFinished(p) /\ loc[p].result = "ok")
      => \A q \in Products :
           products[q].stock = loc[p].pre.stock[q] + QuantityOf(loc[p].pre.order.items, q)

\* the moves of an order's paymentStatus along pending -> processing ->
\* completed | failed and completed -> refunded; a move may pass over processing
PaymentStatusMoves ==
  {<<"pending", "processing">>, <<"pending", "completed">>, <<"pending", "failed">>,
   <<"processing", "completed">>, <<"processing", "failed">>,
   <<"completed", "refunded">>}

\* C26: every step that changes the paymentStatus of a stored order moves it
\* along pending -> processing -> completed | failed or completed -> refunded;
\* in particular no step takes it from completed back to pending, processing
\* or failed
C26_PaymentStatusMovesForward ==
  [][\A o \in DOMAIN orders :
       orders'[o].paymentStatus # orders[o].paymentStatus
         => <<orders[o].paymentStatus, orders'[o].paymentStatus>> \in PaymentStatusMoves]_vars

(***************************************************************************)
(* EnhancedMediator with CachingMiddleware installed (Use): one client     *)
(* sends commands through Send, each goes through the middleware first     *)
(***************************************************************************)
\* the cache key of a request: its type and its field values as %+v prints them
CacheKey(c) == <<c.op, c>>

\* the interface Query: a request with a method GetName() string; every
\* command has one
IsQuery(c) == c.op # "none"

\* the middleware has nothing left to do for process p's last request
MiddlewareDone(p) ==
  \/ loc[p].pc = "idle"
  \/ /\ loc[p].pc = "done"
     /\ loc[p].result = "ok" => CacheKey(loc[p].cmd) \in cache

\* EnhancedMediator.Send with the middleware chain: CachingMiddleware passes a
\* request that is no Query on, answers a Query whose key is in the cache with
\* the cached result and a nil error, and passes any other Query on to
\* DefaultMediator.Send
Send(p, c) ==
  /\ MiddlewareDone(p)
  /\ calls < MaxCalls
  /\ IF IsQuery(c) /\ CacheKey(c) \in cache
       THEN /\ calls' = calls + 1
            /\ Local(p, Returned([NoLoc EXCEPT !.cmd = c], "ok"))
            /\ UNCHANGED <<Stores, carts, cache, predefined, History>>
       ELSE Handle(p, c)

\* CachingMiddleware after next returned: a nil error puts the result into the
\* cache
CacheResult(p) ==
  /\ loc[p].pc = "done"
  /\ loc[p].result = "ok"
  /\ IsQuery(loc[p].cmd)
  /\ CacheKey(loc[p].cmd) \notin cache
  /\ cache' = cache \cup {CacheKey(loc[p].cmd)}
  /\ UNCHANGED <<Stores, carts, predefined, loc, calls, History>>

NextCache ==
  \E p \in Solo :
    \/ \E c \in SingleLineCreateOrders : Send(p, c)
    \/ CacheResult(p)
    \/ CreateOrderSteps(p)

SpecCache == Init /\ [][NextCache]_vars

\* C27: with CachingMiddleware installed every command passed to Send is
\* handed to its handler, also a command equal in type and field values to
\* one sent before: each Send step leaves the process at the first step of the
\* command's handler
C27_CommandsReachHandler ==
  [][\A p \in Procs :
       (calls' = calls + 1 /\ loc'[p] # loc[p])
         => loc'[p].pc = FirstLabel(loc'[p].cmd)]_vars

\* no request is under way
BetweenOperations == \A p \in Procs : loc[p].pc \in {"idle", "done"}

\* C28: between operations, whichever single repository call failed, the
\* paymentStatus of an order is completed if and only if one of the order's
\* Payment rows has status completed
C28_PaidIffCompletedPayment ==
  BetweenOperations
    => \A o \in DOMAIN orders :
         orders[o].paymentStatus = "completed"
           <=> \E i \in DOMAIN payments :
                 payments[i].orderID = o /\ payments[i].status = "completed"

(***************************************************************************)
(* Specification: one CreateOrder request for a single line, then each of  *)
(* the two request processes makes one request that pays the order, sets   *)
(* its status or cancels it; their repository calls interleave and every   *)
(* call succeeds                                                           *)
(***************************************************************************)
NextRace ==
  \E p \in Procs :
    \/ \E c \in SingleLineCreateOrders : calls = 0 /\ p = 1 /\ Begin(p, c)
    \/ \E c \in ProcessPaymentRequests \cup UpdateOrderStatusRequests \cup CancelOrderRequests :
         /\ calls = p
         /\ Finished(1)
            \/ loc[1].cmd.op \in {"ProcessPayment", "UpdateOrderStatus", "CancelOrder"}
         /\ OrderExists(c.orderID)
         /\ Begin(p, c)
    \/ CreateOrderSteps(p)
    \/ ProcessPaymentSteps(p)
    \/ UpdateOrderStatusSteps(p)
    \/ CancelOrderSteps(p)

SpecRace == Init /\ [][NextRace]_vars

\* C29: when ProcessPayment runs beside UpdateOrderStatus or CancelOrder on
\* one order, the write of the whole order row by one of them never undoes what
\* the other wrote: the row write of ProcessPayment leaves the stored status as
\* it is, and the row write of UpdateOrderStatus (on its own or within
\* CancelOrder) leaves the stored paymentStatus as it is
C29_RowWriteKeepsOthersChange ==
  [][\A p \in Procs :
       /\ (loc[p].pc = "pp_save" /\ loc'[p].pc = "pp_pub")
            => orders'[loc[p].cmd.orderID].status = orders[loc[p].cmd.orderID].status
       /\ (loc[p].pc = "us_save" /\ loc'[p].pc = "us_pub")
            => orders'[loc[p].cmd.orderID].paymentStatus
                 = orders[loc[p].cmd.orderID].paymentStatus]_vars

(***************************************************************************)
(* AppError.WithDetails on the package level error values                  *)
(***************************************************************************)
\* AppError.WithDetails of the package's first definition: the details are
\* stored in the receiver, which is the package level value
WithDetailsInPlace(errs, code, details) == [errs EXCEPT ![code] = details]

\* line 109-132 in a build whose WithDetails is the one that writes into its
\* receiver
CoValidateItemDetailsInPlace(p) ==
  /\ At(p, "co_get")
  /\ LET c == loc[p].cmd
         item == c.items[loc[p].idx]
     IN  IF item.productID \notin Products
           THEN Return(p, "PRODUCT_NOT_FOUND") /\ UNCHANGED predefined
         ELSE IF ~CanOrder(GetProduct(item.productID), item.quantity)
           THEN /\ predefined' =
                     WithDetailsInPlace(predefined, "INSUFFICIENT_STOCK",
                                        <<"Insufficient stock for product", item.productID>>)
                /\ Return(p, "INSUFFICIENT_STOCK")
         ELSE /\ Local(p, [loc[p] EXCEPT
                   !.orderItems = Append(@, [productID |-> item.productID,
                                             quantity |-> item.quantity,
                                             unitPrice |-> products[item.productID].price]),
                   !.idx = @ + 1,
                   !.pc = IF loc[p].idx = Len(c.items) THEN "co_create" ELSE "co_get"])
              /\ UNCHANGED predefined
  /\ UNCHANGED <<Stores, carts, cache, calls, History>>

NextDetails ==
  \E p \in Solo :
    \/ \E c \in SingleLineCreateOrders : Begin(p, c)
    \/ CreateOrderSteps(p)
    \/ CoValidateItemDetailsInPlace(p)

SpecDetails == Init /\ [][NextDetails]_vars

\* C30: WithDetails on a package level error value leaves that value as it was
\* declared, without details, so that no request gets an error carrying the
\* details of another request
C30_PredefinedErrorsUnchanged ==
  \A e \in PredefinedErrors : predefined[e] = NoDetails

====
